---- MODULE Spec2Model ----
(***************************************************************************)
(* The interactive mode of taskn (src/commands/interactive/mod.rs) with    *)
(* the taskwarrior calls it makes (src/taskwarrior.rs).                    *)
(*                                                                         *)
(* Rust values are written as follows.                                     *)
(*   Option<T>  : <<>> is None, <<x>> is Some(x)                           *)
(*   String     : an estimate is a sequence of decimal digits, "10" is     *)
(*                <<1, 0>>; uuid, status, description are TLA+ strings     *)
(*   Vec<T>     : a sequence                                               *)
(*   Task       : a record with the fields of struct Task                  *)
(*   Box<dyn Mode> : <<"Normal">>, <<"Shift", original_pos>>, <<"Done">>   *)
(*   Key        : a string naming the key, "Enter" is Key::Char('\n')      *)
(*   a store call : <<"modify", uuid, description, status, estimate_arg>>  *)
(*                  or <<"export", filter>>                                *)
(*   Event      : <<"Key", key, e>> or <<"Resize", "", e>>; e tells whether  *)
(*                execute() was in task_edit when the event was sent       *)
(***************************************************************************)
EXTENDS Integers, Sequences, FiniteSets

VARIABLES
    store,           \* taskwarrior's data: Seq of Task, in export order
    opt_only_taskn,  \* opt.only_taskn
    pc,              \* position of execute(): start, render, next, edit, exited, error, panicked
    mode,            \* the local `mode` of execute()
    tasks,           \* common_state.tasks
    list_state,      \* common_state.list_state.selected(): Option<usize>
    tasks_contents,  \* common_state.tasks_contents: Seq of <<uuid, contents>>
    calls,           \* history: the store calls issued by the latest step of execute()
    last,            \* history: the latest event the loop took, <<mode name, event name,
                     \* selected() before it>>, or <<>>
    entry_tasks,     \* history: common_state.tasks when Shift mode was entered
    entry_selected,  \* history: list_state when Shift mode was entered
    raw_mode,        \* the terminal is as execute() sets it: raw mode, alternate
                     \* screen, mouse reports, hidden cursor
    failed,          \* history: the kind of store call of the latest step that did not
                     \* succeed: "none", "list" (the export) or "persist" (a modify)
    chan,            \* the mpsc channel of Events: the events sent and not yet received
    input_thread,    \* the thread of make_input_thread: running, ended, panicked
    signal_thread,   \* the thread of make_signal_thread: starting, running, panicked
    sent_keys,       \* history: the keys the input thread has sent
    resizes,         \* history: the number of SIGWINCH the signal thread has seen
    delivered        \* history: the events Events::next has returned

\* the variables of Events and its threads
evvars == <<chan, input_thread, signal_thread, sent_keys, resizes, delivered>>

vars == <<store, opt_only_taskn, pc, mode, tasks, list_state, tasks_contents,
          calls, last, entry_tasks, entry_selected, failed, raw_mode, evvars>>

----------------------------------------------------------------------------
(* Bounds of the model *)

\* the number of tasks taskwarrior holds is at most MaxTasks
MaxTasks == 3

\* the stores of SpecFlush hold at most MaxFlushTasks tasks: enough for
\* positions of two digits
MaxFlushTasks == 11

\* in SpecEvents the input thread sends at most MaxSentKeys keys
MaxSentKeys == 3

\* in SpecEvents the signal thread sees at most MaxResizes SIGWINCH
MaxResizes == 1

\* the stores of SpecOrder hold at most MaxOrderTasks tasks: enough for
\* positions of two digits
MaxOrderTasks == 11

\* in SpecOrder the order command is run at most MaxOrderRuns times
MaxOrderRuns == 2

\* usize::MAX, the result of 0usize - 1 in a build without overflow checks.
\* It is 2^64 - 1 on the targets of the program; the model uses the largest
\* integer TLC represents, which is as far above every index as 2^64 - 1 is.
UsizeMax == 2147483647

----------------------------------------------------------------------------
(* Option, String, Ordering *)

None == <<>>
Some(x) == <<x>>
IsSome(o) == o # <<>>
UnwrapOr(o, d) == IF o = <<>> THEN d ELSE o[1]

\* usize::to_string / i32's Display: the decimal digits of n
RECURSIVE ToString(_)
ToString(n) == IF n < 10 THEN <<n>> ELSE Append(ToString(n \div 10), n % 10)

\* <str as Ord>::cmp: byte-wise lexicographic, a proper prefix is Less
RECURSIVE StrCmp(_, _)
StrCmp(a, b) ==
    IF a = <<>> /\ b = <<>> THEN "Equal"
    ELSE IF a = <<>> THEN "Less"
    ELSE IF b = <<>> THEN "Greater"
    ELSE IF Head(a) < Head(b) THEN "Less"
    ELSE IF Head(a) > Head(b) THEN "Greater"
    ELSE StrCmp(Tail(a), Tail(b))

\* a mutant of PartialCmp: an absent estimate is the greatest
PartialCmpNoneLast(a, b) ==
    IF a = None /\ b = None THEN Some("Equal")
    ELSE IF a = None THEN Some("Greater")
    ELSE IF b = None THEN Some("Less")
    ELSE Some(StrCmp(a[1], b[1]))

\* <Option<String> as PartialOrd>::partial_cmp, as derived: None < Some(_),
\* Some(a) against Some(b) as a against b; it never returns None
PartialCmp(a, b) ==
    IF a = None /\ b = None THEN Some("Equal")
    ELSE IF a = None THEN Some("Less")
    ELSE IF b = None THEN Some("Greater")
    ELSE Some(StrCmp(a[1], b[1]))

----------------------------------------------------------------------------
(* usize arithmetic *)

\* a - b on usize overflows when a < b
SubOverflows(a, b) == a < b

\* a - b as the build without overflow checks computes it
WrappingSub(a, b) == IF a >= b THEN a - b ELSE UsizeMax - (b - a) + 1

----------------------------------------------------------------------------
(* Vec *)

\* a mutant of VecSwap: the element at j is copied to i, and i's is lost
VecSwapOverwrites(v, i, j) ==
    [k \in 1..Len(v) |-> IF k = i + 1 THEN v[j + 1] ELSE v[k]]

\* Vec::swap(i, j), indices from 0
VecSwap(v, i, j) ==
    [k \in 1..Len(v) |-> IF k = i + 1 THEN v[j + 1]
                         ELSE IF k = j + 1 THEN v[i + 1] ELSE v[k]]

\* Vec::remove(i), index from 0; the caller checks i < len
VecRemove(v, i) == SubSeq(v, 1, i) \o SubSeq(v, i + 2, Len(v))

\* Vec::insert(i, x), index from 0; the caller checks i <= len
VecInsert(v, i, x) == SubSeq(v, 1, i) \o <<x>> \o SubSeq(v, i + 1, Len(v))

\* the place of x in the sorted v: before the first element greater than x
RECURSIVE InsertionPoint(_, _, _)
InsertionPoint(v, x, i) ==
    IF i >= Len(v) THEN Len(v)
    ELSE IF UnwrapOr(PartialCmp(v[i + 1].estimate, x.estimate), "Equal") = "Greater" THEN i
    ELSE InsertionPoint(v, x, i + 1)

\* a mutant of SortInsert: x is put before the elements that equal it
SortInsertBeforeEqual(v, x) ==
    LET notLess == { i \in 0..(Len(v) - 1) :
                        PartialCmp(v[i + 1].estimate, x.estimate) # Some("Less") }
    IN  VecInsert(v, IF notLess = {} THEN Len(v)
                     ELSE CHOOSE i \in notLess : \A k \in notLess : i <= k, x)

\* x put into the sorted v, after the elements that are not greater than x
SortInsert(v, x) == VecInsert(v, InsertionPoint(v, x, 0), x)

\* slice::sort_by(|a, b| a.estimate.partial_cmp(&b.estimate).unwrap()):
\* a stable sort, ascending
RECURSIVE SortByEstimate(_)
SortByEstimate(v) ==
    IF v = <<>> THEN <<>>
    ELSE SortInsert(SortByEstimate(SubSeq(v, 1, Len(v) - 1)), v[Len(v)])

\* the unwrap() of the comparator panics when partial_cmp returns None
SortPanics(v) ==
    \E i, j \in 1..Len(v) : i < j /\ PartialCmp(v[i].estimate, v[j].estimate) = None

----------------------------------------------------------------------------
(* Tasks and the data taskwarrior holds *)

\* struct Task, as `task export` gives it; an estimate is absent (None) or a
\* string; `wait` is read and never used by the interactive mode
Catalog ==
    << [description |-> "a", uuid |-> "A", status |-> "pending",
        estimate |-> Some(<<2>>), tags |-> Some(<<"taskn">>)],
       [description |-> "b", uuid |-> "B", status |-> "pending",
        estimate |-> Some(<<1, 0>>), tags |-> None],
       [description |-> "c", uuid |-> "C", status |-> "pending",
        estimate |-> None, tags |-> Some(<<"taskn", "home">>)],
       [description |-> "d", uuid |-> "D", status |-> "pending",
        estimate |-> Some(<<2>>), tags |-> None] >>

\* the elements of a set of numbers, ascending
RECURSIVE Ascending(_)
Ascending(S) ==
    IF S = {} THEN <<>>
    ELSE LET m == CHOOSE x \in S : \A y \in S : x <= y
         IN  <<m>> \o Ascending(S \ {m})

Reverse(v) == [i \in 1..Len(v) |-> v[Len(v) + 1 - i]]

\* the stores the model starts from: up to MaxTasks tasks of the catalog, in
\* the order of the catalog or in the opposite order
Selections ==
    LET chosen == { S \in SUBSET (1..Len(Catalog)) : Cardinality(S) <= MaxTasks }
    IN  { Ascending(S) : S \in chosen } \cup { Reverse(Ascending(S)) : S \in chosen }

MakeStore(s) ==
    [i \in 1..Len(s) |->
        [id |-> i, description |-> Catalog[s[i]].description, uuid |-> Catalog[s[i]].uuid,
         status |-> Catalog[s[i]].status, estimate |-> Catalog[s[i]].estimate,
         tags |-> Catalog[s[i]].tags]]

Uuids(v) == [i \in 1..Len(v) |-> v[i].uuid]

\* Task::has_tag
HasTag(t, s) == t.tags # None /\ \E i \in 1..Len(t.tags[1]) : t.tags[1][i] = s

\* the arguments load_from_taskwarrior gives Task::get
LoadFilter(only_taskn) ==
    IF only_taskn THEN <<"status:pending", "+taskn">> ELSE <<"status:pending">>

\* taskwarrior's reading of one filter term
Matches(t, term) ==
    IF term = "status:pending" THEN t.status = "pending"
    ELSE IF term = "+taskn" THEN HasTag(t, "taskn")
    ELSE TRUE

\* Task::get when the command runs and its output parses: the tasks that
\* match every term, in the order of the store
TaskGet(st, filter) ==
    SelectSeq(st, LAMBDA t : \A i \in 1..Len(filter) : Matches(t, filter[i]))

\* the uuids that have a note file under opt.root_dir
NoteFiles == {"A", "C"}

\* Task::load_contents when the read does not fail: the text of the note, ""
\* when there is no file (the text of a note is named by its uuid here)
LoadContents(t) == IF t.uuid \in NoteFiles THEN t.uuid ELSE ""

\* a mutant of SaveCommand: the estimate is passed as well, as in the lines
\* that are commented out in Task::save
SaveCommandWithEstimate(t) ==
    <<"modify", t.uuid, t.description, t.status, Some(t.estimate)>>

\* the command Task::save runs: task <uuid> modify <description>
\* status:<status>; no estimate argument is passed
SaveCommand(t) == <<"modify", t.uuid, t.description, t.status, None>>

\* taskwarrior's execution of a modify command: the named task takes the
\* description and the status, and the estimate when the command carries one
StoreModify(st, cmd) ==
    [i \in 1..Len(st) |->
        IF st[i].uuid = cmd[2]
        THEN [st[i] EXCEPT !.description = cmd[3], !.status = cmd[4],
                           !.estimate = IF cmd[5] = None THEN @ ELSE cmd[5][1]]
        ELSE st[i]]

----------------------------------------------------------------------------
(* CommonState *)

\* CommonState::selected
Selected(ls) == UnwrapOr(ls, 0)

\* a mutant of TasksContents: a pair is pushed only for a task that has a
\* note file
TasksContentsOfNotes(ts) ==
    LET noted == SelectSeq(ts, LAMBDA t : t.uuid \in NoteFiles)
    IN  [i \in 1..Len(noted) |-> <<noted[i].uuid, LoadContents(noted[i])>>]

\* the tasks_contents load_from_taskwarrior builds: one pair (uuid,
\* contents) for every task, in the order of the tasks
TasksContents(ts) == [i \in 1..Len(ts) |-> <<ts[i].uuid, LoadContents(ts[i])>>]

\* CommonState::load_from_taskwarrior. outcome names what the calls do:
\* "ok", "get_err" (Task::get fails: the command does not start, or
\* taskwarrior fails and prints no JSON), "contents_err" (a load_contents
\* fails)
Load(st, only_taskn, outcome) ==
    LET filter == LoadFilter(only_taskn)
        got == TaskGet(st, filter)
        sorted == SortByEstimate(got)
        call == <<"export", filter>>
    IN  IF outcome = "get_err" THEN
            [kind |-> "err", tasks |-> <<>>, list_state |-> None,
             tasks_contents |-> <<>>, calls |-> <<call>>, failed |-> "list"]
        ELSE IF SortPanics(got) THEN
            [kind |-> "panic", tasks |-> <<>>, list_state |-> None,
             tasks_contents |-> <<>>, calls |-> <<call>>, failed |-> "none"]
        ELSE IF outcome = "contents_err" /\ sorted # <<>> THEN
            [kind |-> "err", tasks |-> <<>>, list_state |-> None,
             tasks_contents |-> <<>>, calls |-> <<call>>, failed |-> "none"]
        ELSE
            [kind |-> "ok", tasks |-> sorted,
             list_state |-> IF sorted # <<>> THEN Some(0) ELSE None,
             tasks_contents |-> TasksContents(sorted),
             calls |-> <<call>>, failed |-> "none"]

\* the estimate flush_to_taskwarrior gives the task at index order
FlushEstimate(order) == Some(ToString(order))

\* the tasks of flush_to_taskwarrior's loop as they are saved
FlushTasks(ts) ==
    [i \in 1..Len(ts) |-> [ts[i] EXCEPT !.estimate = FlushEstimate(i - 1)]]

\* the store after the first n saves of the loop; the command of the save
\* numbered reject_at exits with a failure and changes nothing
RECURSIVE SaveAll(_, _, _, _)
SaveAll(st, ts, n, reject_at) ==
    IF n = 0 THEN st
    ELSE IF n = reject_at THEN SaveAll(st, ts, n - 1, reject_at)
    ELSE StoreModify(SaveAll(st, ts, n - 1, reject_at), SaveCommand(ts[n]))

\* a mutant of FlushSelected: the selection of the load is kept
FlushSelectedOfLoad(new_selected, len) == 0

\* a mutant of FlushSelected: the old index is kept as it is
FlushSelectedNotClamped(new_selected, len) == new_selected

\* the new selection of flush_to_taskwarrior: the old index, or len - 1 when
\* the old index is not below len
FlushSelected(new_selected, len) ==
    IF new_selected >= len THEN WrappingSub(len, 1) ELSE new_selected

\* CommonState::flush_to_taskwarrior. fail_at = k > 0: the k-th save returns
\* Err (its command does not start); reject_at = k > 0: the command of the
\* k-th save runs and exits with a failure, and save returns Ok(()) as it
\* drops the Output; outcome: that of the load; wrap: the build has no
\* overflow checks
Flush(st, ts, ls, only_taskn, fail_at, reject_at, outcome, wrap) ==
    LET new_selected == Selected(ls)
        saved == FlushTasks(ts)
        n == IF fail_at = 0 THEN Len(ts) ELSE fail_at - 1
        attempts == IF fail_at = 0 THEN Len(ts) ELSE fail_at
        st1 == SaveAll(st, saved, n, reject_at)
        save_calls == [i \in 1..attempts |-> SaveCommand(saved[i])]
        ld == Load(st1, only_taskn, outcome)
        persist == IF reject_at # 0 THEN "persist" ELSE ld.failed
    IN  IF fail_at # 0 THEN
            [kind |-> "err", store |-> st1, tasks |-> saved, list_state |-> ls,
             tasks_contents |-> <<>>, calls |-> save_calls, failed |-> "persist"]
        ELSE IF ld.kind # "ok" THEN
            [kind |-> ld.kind, store |-> st1, tasks |-> saved, list_state |-> ls,
             tasks_contents |-> <<>>, calls |-> save_calls \o ld.calls, failed |-> persist]
        ELSE IF new_selected >= Len(ld.tasks) /\ SubOverflows(Len(ld.tasks), 1) /\ ~wrap THEN
            [kind |-> "panic", store |-> st1, tasks |-> ld.tasks, list_state |-> ld.list_state,
             tasks_contents |-> ld.tasks_contents, calls |-> save_calls \o ld.calls,
             failed |-> persist]
        ELSE
            [kind |-> "ok", store |-> st1, tasks |-> ld.tasks,
             list_state |-> Some(FlushSelected(new_selected, Len(ld.tasks))),
             tasks_contents |-> ld.tasks_contents, calls |-> save_calls \o ld.calls,
             failed |-> persist]

----------------------------------------------------------------------------
(* Keys and modes *)

\* the keys the model presses ('K' and 'J' act as 'k' and 'j' and are left out)
Keys == {"Up", "Down", "k", "j", "g", "G", "d", "s", "X", "Enter",
         "Esc", "CtrlF", "CtrlC", "q", "z"}

\* Key::Up | Key::Char('k' | 'K')
IsUpKey(key) == key \in {"Up", "k", "K"}
\* Key::Down | Key::Char('j' | 'J')
IsDownKey(key) == key \in {"Down", "j", "J"}
\* Key::Esc | Key::Ctrl('f')
IsCancelKey(key) == key \in {"Esc", "CtrlF"}
\* a mutant of IsQuitKey: the loop does not break on 'q'
IsQuitKeyWithoutQ(key) == key \in {"Esc", "CtrlC"}
\* the keys on which the loop of execute() breaks
IsQuitKey(key) == key \in {"q", "Esc", "CtrlC"}

Normal == <<"Normal">>
Done == <<"Done">>
\* a mutant of ShiftNew: the first position is remembered
ShiftNewAtFirst(current_pos) == <<"Shift", 0>>

\* Shift::new
ShiftNew(current_pos) == <<"Shift", current_pos>>

\* what an update leaves behind: kind "ok" is Ok(ActionResult), kind "panic"
\* a panic of the thread
Result(kind, ts, ls, new_mode, should_flush, should_load, edit) ==
    [kind |-> kind, tasks |-> ts, list_state |-> ls, new_mode |-> new_mode,
     should_flush |-> should_flush, should_load |-> should_load, edit |-> edit]

\* a mutant of Stay: the result asks for a flush
StayAndFlush(ts, ls) == Result("ok", ts, ls, None, TRUE, FALSE, FALSE)

\* the `_ =>` arm and the arms that only move the cursor: no new mode, no
\* flush, no load
Stay(ts, ls) == Result("ok", ts, ls, None, FALSE, FALSE, FALSE)
Panic(ts, ls) == Result("panic", ts, ls, None, FALSE, FALSE, FALSE)

\* a mutant of NormalUpdate: down/j moves the cursor without looking at the
\* length
NormalUpdateDownUnbounded(ts, ls, key, wrap) ==
    LET selected == Selected(ls)
        len == Len(ts)
    IN  IF IsUpKey(key) THEN
            IF selected > 0 THEN Stay(ts, Some(selected - 1)) ELSE Stay(ts, ls)
        ELSE IF IsDownKey(key) THEN Stay(ts, Some(selected + 1))
        ELSE IF key = "g" THEN Stay(ts, Some(0))
        ELSE IF key = "G" THEN
            IF SubOverflows(len, 1) /\ ~wrap THEN Panic(ts, ls)
            ELSE Stay(ts, Some(WrappingSub(len, 1)))
        ELSE IF key = "d" THEN Result("ok", ts, ls, Some(Done), FALSE, FALSE, FALSE)
        ELSE IF key = "s" THEN
            Result("ok", ts, ls, Some(ShiftNew(selected)), FALSE, FALSE, FALSE)
        ELSE IF key = "X" THEN
            IF selected >= len THEN Panic(ts, ls)
            ELSE Result("ok", ts, ls, None, FALSE, FALSE, TRUE)
        ELSE Stay(ts, ls)

\* a mutant of NormalUpdate: 'd' marks the selected task done and asks for
\* the flush at once, without the confirmation of Done mode
NormalUpdateDoneAtOnce(ts, ls, key, wrap) ==
    LET selected == Selected(ls)
        len == Len(ts)
    IN  IF IsUpKey(key) THEN
            IF selected > 0 THEN Stay(ts, Some(selected - 1)) ELSE Stay(ts, ls)
        ELSE IF IsDownKey(key) THEN
            IF SubOverflows(len, 1) /\ ~wrap THEN Panic(ts, ls)
            ELSE IF selected < WrappingSub(len, 1) THEN Stay(ts, Some(selected + 1))
            ELSE Stay(ts, ls)
        ELSE IF key = "g" THEN Stay(ts, Some(0))
        ELSE IF key = "G" THEN
            IF SubOverflows(len, 1) /\ ~wrap THEN Panic(ts, ls)
            ELSE Stay(ts, Some(WrappingSub(len, 1)))
        ELSE IF key = "d" THEN
            IF selected >= len THEN Panic(ts, ls)
            ELSE Result("ok", [ts EXCEPT ![selected + 1].status = "done"], ls,
                        None, TRUE, FALSE, FALSE)
        ELSE IF key = "s" THEN
            Result("ok", ts, ls, Some(ShiftNew(selected)), FALSE, FALSE, FALSE)
        ELSE IF key = "X" THEN
            IF selected >= len THEN Panic(ts, ls)
            ELSE Result("ok", ts, ls, None, FALSE, FALSE, TRUE)
        ELSE Stay(ts, ls)

\* Normal::update; wrap: the build has no overflow checks
NormalUpdate(ts, ls, key, wrap) ==
    LET selected == Selected(ls)
        len == Len(ts)
    IN  IF IsUpKey(key) THEN
            IF selected > 0 THEN Stay(ts, Some(selected - 1)) ELSE Stay(ts, ls)
        ELSE IF IsDownKey(key) THEN
            IF SubOverflows(len, 1) /\ ~wrap THEN Panic(ts, ls)
            ELSE IF selected < WrappingSub(len, 1) THEN Stay(ts, Some(selected + 1))
            ELSE Stay(ts, ls)
        ELSE IF key = "g" THEN Stay(ts, Some(0))
        ELSE IF key = "G" THEN
            IF SubOverflows(len, 1) /\ ~wrap THEN Panic(ts, ls)
            ELSE Stay(ts, Some(WrappingSub(len, 1)))
        ELSE IF key = "d" THEN Result("ok", ts, ls, Some(Done), FALSE, FALSE, FALSE)
        ELSE IF key = "s" THEN
            Result("ok", ts, ls, Some(ShiftNew(selected)), FALSE, FALSE, FALSE)
        ELSE IF key = "X" THEN
            \* task_edit indexes tasks[selected]
            IF selected >= len THEN Panic(ts, ls)
            ELSE Result("ok", ts, ls, None, FALSE, FALSE, TRUE)
        ELSE Stay(ts, ls)

\* a mutant of ShiftCancel: the task changes places with the one at its
\* original position
ShiftCancelBySwap(ts, ls, original_pos) ==
    LET selected == Selected(ls)
    IN  IF selected >= Len(ts) THEN Panic(ts, ls)
        ELSE Result("ok", VecSwap(ts, selected, original_pos), Some(original_pos),
                    Some(Normal), FALSE, FALSE, FALSE)

\* the Esc | Ctrl('f') arm of Shift::update
ShiftCancel(ts, ls, original_pos) ==
    LET selected == Selected(ls)
    IN  IF selected >= Len(ts) THEN Panic(ts, ls)                \* Vec::remove
        ELSE IF original_pos > Len(ts) - 1 THEN Panic(ts, ls)     \* Vec::insert
        ELSE Result("ok", VecInsert(VecRemove(ts, selected), original_pos, ts[selected + 1]),
                    Some(original_pos), Some(Normal), FALSE, FALSE, FALSE)

\* a mutant of ShiftUpdate: enter and 's' ask for a reload and no flush
ShiftUpdateCommitReloads(ts, ls, original_pos, key, wrap) ==
    LET selected == Selected(ls)
        len == Len(ts)
    IN  IF IsUpKey(key) THEN
            IF selected > 0
            THEN Stay(VecSwap(ts, selected, selected - 1), Some(selected - 1))
            ELSE Stay(ts, ls)
        ELSE IF IsDownKey(key) THEN
            IF SubOverflows(len, 1) /\ ~wrap THEN Panic(ts, ls)
            ELSE IF selected < WrappingSub(len, 1)
            THEN IF selected + 1 >= len THEN Panic(ts, ls)
                 ELSE Stay(VecSwap(ts, selected, selected + 1), Some(selected + 1))
            ELSE Stay(ts, ls)
        ELSE IF key \in {"Enter", "s"} THEN
            Result("ok", ts, ls, Some(Normal), FALSE, TRUE, FALSE)
        ELSE IF IsCancelKey(key) THEN ShiftCancel(ts, ls, original_pos)
        ELSE Stay(ts, ls)

\* Shift::update
ShiftUpdate(ts, ls, original_pos, key, wrap) ==
    LET selected == Selected(ls)
        len == Len(ts)
    IN  IF IsUpKey(key) THEN
            IF selected > 0
            THEN Stay(VecSwap(ts, selected, selected - 1), Some(selected - 1))
            ELSE Stay(ts, ls)
        ELSE IF IsDownKey(key) THEN
            IF SubOverflows(len, 1) /\ ~wrap THEN Panic(ts, ls)
            ELSE IF selected < WrappingSub(len, 1)
            THEN IF selected + 1 >= len THEN Panic(ts, ls)        \* Vec::swap
                 ELSE Stay(VecSwap(ts, selected, selected + 1), Some(selected + 1))
            ELSE Stay(ts, ls)
        ELSE IF key \in {"Enter", "s"} THEN
            Result("ok", ts, ls, Some(Normal), TRUE, FALSE, FALSE)
        ELSE IF IsCancelKey(key) THEN ShiftCancel(ts, ls, original_pos)
        ELSE Stay(ts, ls)

\* a mutant of DoneUpdate: enter marks the first task of the sequence
DoneUpdateMarksFirst(ts, ls, key) ==
    LET selected == Selected(ls)
    IN  IF IsCancelKey(key) THEN Result("ok", ts, ls, Some(Normal), FALSE, FALSE, FALSE)
        ELSE IF key = "Enter" THEN
            IF selected >= Len(ts) THEN Panic(ts, ls)
            ELSE Result("ok", [ts EXCEPT ![1].status = "done"], ls,
                        Some(Normal), TRUE, FALSE, FALSE)
        ELSE Stay(ts, ls)

\* Done::update
DoneUpdate(ts, ls, key) ==
    LET selected == Selected(ls)
    IN  IF IsCancelKey(key) THEN Result("ok", ts, ls, Some(Normal), FALSE, FALSE, FALSE)
        ELSE IF key = "Enter" THEN
            IF selected >= Len(ts) THEN Panic(ts, ls)
            ELSE Result("ok", [ts EXCEPT ![selected + 1].status = "done"], ls,
                        Some(Normal), TRUE, FALSE, FALSE)
        ELSE Stay(ts, ls)

\* mode.update(opt, &mut common_state, key)
Update(m, ts, ls, key, wrap) ==
    IF m[1] = "Normal" THEN NormalUpdate(ts, ls, key, wrap)
    ELSE IF m[1] = "Shift" THEN ShiftUpdate(ts, ls, m[2], key, wrap)
    ELSE DoneUpdate(ts, ls, key)

\* CommonState::selected_contents panics: tasks[selected] is out of bounds,
\* or no pair of tasks_contents has the uuid of the selected task
SelectedContentsPanics(ts, ls, tc) ==
    \/ Selected(ls) >= Len(ts)
    \/ ~ \E i \in 1..Len(tc) : tc[i][1] = ts[Selected(ls) + 1].uuid

\* mode.render panics: Normal and Shift draw the preview of the selected
\* task (common_render -> render_contents); Done draws the list and a banner
RenderPanics(m, ts, ls, tc) ==
    m[1] \in {"Normal", "Shift"} /\ SelectedContentsPanics(ts, ls, tc)

----------------------------------------------------------------------------
(* execute() *)

LoadOutcomes == {"ok", "get_err", "contents_err"}

\* Events as Spec and SpecFlush see it: both threads run, and the event
\* that next() returns is any event (the channel is spelled out in
\* SpecEvents)
EventsAbstract ==
    /\ chan = <<>>
    /\ input_thread = "running"
    /\ signal_thread = "running"
    /\ sent_keys = <<>>
    /\ resizes = 0
    /\ delivered = <<>>

Init ==
    /\ store \in {MakeStore(s) : s \in Selections}
    /\ opt_only_taskn \in BOOLEAN
    /\ pc = "start"
    /\ mode = Normal
    /\ tasks = <<>>
    /\ list_state = None
    /\ tasks_contents = <<>>
    /\ calls = <<>>
    /\ last = <<>>
    /\ entry_tasks = <<>>
    /\ entry_selected = None
    /\ failed = "none"
    /\ raw_mode = FALSE
    /\ EventsAbstract

\* where execute() is after a call that ended as `kind`
PcAfter(kind) ==
    IF kind = "ok" THEN "render" ELSE IF kind = "err" THEN "error" ELSE "panicked"

\* a mutant of RawModeAfterDrop: the terminal is left as it is
RawModeKept == raw_mode

\* the state of the terminal after `terminal` is dropped: the Drop of
\* RawTerminal sets the attributes the terminal had, those of
\* AlternateScreen and MouseTerminal switch back
RawModeAfterDrop == FALSE

\* execute() has returned or its thread has panicked and unwound: its
\* locals are dropped
Dropped ==
    /\ raw_mode' = RawModeAfterDrop
    /\ mode' = Normal
    /\ tasks' = <<>>
    /\ list_state' = None
    /\ tasks_contents' = <<>>
    /\ entry_tasks' = <<>>
    /\ entry_selected' = None

\* execute() up to the loop: the terminal is set up (cleared: hide_cursor
\* and clear return Ok), then Events::new() and the first load
Startup ==
    /\ pc = "start"
    /\ \E cleared \in BOOLEAN, outcome \in LoadOutcomes :
        IF ~cleared THEN
            /\ pc' = "error"
            /\ raw_mode' = RawModeAfterDrop
            /\ UNCHANGED <<tasks, list_state, tasks_contents, calls, failed>>
        ELSE
            \E ld \in {Load(store, opt_only_taskn, outcome)} :
                /\ pc' = PcAfter(ld.kind)
                /\ raw_mode' = IF ld.kind = "ok" THEN TRUE ELSE RawModeAfterDrop
                /\ tasks' = ld.tasks
                /\ list_state' = ld.list_state
                /\ tasks_contents' = ld.tasks_contents
                /\ calls' = ld.calls
                /\ failed' = ld.failed
    /\ UNCHANGED <<store, opt_only_taskn, mode, last, entry_tasks, entry_selected>>

\* mode.render(&mut common_state, &mut terminal)?; drawn: terminal.draw
\* returns Ok
Render ==
    /\ pc = "render"
    /\ \E drawn \in BOOLEAN :
        IF RenderPanics(mode, tasks, list_state, tasks_contents) THEN
            pc' = "panicked" /\ Dropped
        ELSE IF ~drawn THEN
            pc' = "error" /\ Dropped
        ELSE
            /\ pc' = "next"
            /\ UNCHANGED <<mode, tasks, list_state, tasks_contents, entry_tasks, entry_selected,
                           raw_mode>>
    /\ UNCHANGED <<store, opt_only_taskn, calls, last, failed>>

\* a mutant of Resize: the snapshot is loaded anew
ResizeReloads ==
    /\ pc = "next"
    /\ pc' = "render"
    /\ \E ld \in {Load(store, opt_only_taskn, "ok")} :
        /\ tasks' = ld.tasks
        /\ list_state' = ld.list_state
        /\ tasks_contents' = ld.tasks_contents
        /\ calls' = ld.calls
    /\ failed' = "none"
    /\ last' = <<mode[1], "Resize", Selected(list_state)>>
    /\ UNCHANGED <<store, opt_only_taskn, mode, entry_tasks, entry_selected, raw_mode>>

\* Event::Resize => continue
Resize ==
    /\ pc = "next"
    /\ pc' = "render"
    /\ calls' = <<>>
    /\ failed' = "none"
    /\ last' = <<mode[1], "Resize", Selected(list_state)>>
    /\ UNCHANGED <<store, opt_only_taskn, mode, tasks, list_state, tasks_contents,
                   entry_tasks, entry_selected, raw_mode>>

\* Key::Char('q') | Key::Esc | Key::Ctrl('c') => break, and the lines after
\* the loop; shown: terminal.show_cursor() and stdout().flush() return Ok
Quit(key) ==
    /\ pc = "next"
    /\ IsQuitKey(key)
    /\ \E shown \in BOOLEAN : pc' = IF shown THEN "exited" ELSE "error"
    /\ calls' = <<>>
    /\ failed' = "none"
    /\ last' = <<mode[1], key, Selected(list_state)>>
    /\ Dropped
    /\ UNCHANGED <<store, opt_only_taskn>>

\* the history of the Shift mode: what the snapshot was when it was entered
EntryTasksAfter(m1, ts) ==
    IF mode[1] = "Shift" THEN entry_tasks
    ELSE IF m1[1] = "Shift" THEN ts ELSE <<>>
EntrySelectedAfter(m1, ls) ==
    IF mode[1] = "Shift" THEN entry_selected
    ELSE IF m1[1] = "Shift" THEN ls ELSE None

\* key => { mode.update(..)?; new_mode; flush or load }
KeyStep(key) ==
    /\ pc = "next"
    /\ ~IsQuitKey(key)
    /\ last' = <<mode[1], key, Selected(list_state)>>
    /\ UNCHANGED opt_only_taskn
    /\ \E wrap \in BOOLEAN :
       \E r \in {Update(mode, tasks, list_state, key, wrap)} :
        LET m1 == IF r.new_mode = None THEN mode ELSE r.new_mode[1]
        IN  IF r.kind = "panic" THEN
                /\ pc' = "panicked"
                /\ calls' = <<>>
                /\ failed' = "none"
                /\ Dropped
                /\ UNCHANGED store
            ELSE IF r.should_flush THEN
                \E fail_at \in 0..Len(r.tasks), reject_at \in 0..Len(r.tasks),
                   outcome \in LoadOutcomes :
                    \* a save after the one that returns Err does not run
                    /\ fail_at = 0 \/ reject_at < fail_at
                    /\ \E f \in {Flush(store, r.tasks, r.list_state, opt_only_taskn,
                                       fail_at, reject_at, outcome, wrap)} :
                        /\ pc' = PcAfter(f.kind)
                        /\ store' = f.store
                        /\ calls' = f.calls
                        /\ failed' = f.failed
                        /\ IF f.kind = "ok" THEN
                                /\ mode' = m1
                                /\ tasks' = f.tasks
                                /\ list_state' = f.list_state
                                /\ tasks_contents' = f.tasks_contents
                                /\ entry_tasks' = EntryTasksAfter(m1, tasks)
                                /\ entry_selected' = EntrySelectedAfter(m1, list_state)
                                /\ UNCHANGED raw_mode
                           ELSE Dropped
            ELSE IF r.should_load THEN
                \E outcome \in LoadOutcomes :
                    \E ld \in {Load(store, opt_only_taskn, outcome)} :
                        /\ pc' = PcAfter(ld.kind)
                        /\ calls' = ld.calls
                        /\ failed' = ld.failed
                        /\ UNCHANGED store
                        /\ IF ld.kind = "ok" THEN
                                /\ mode' = m1
                                /\ tasks' = ld.tasks
                                /\ list_state' = ld.list_state
                                /\ tasks_contents' = ld.tasks_contents
                                /\ entry_tasks' = EntryTasksAfter(m1, tasks)
                                /\ entry_selected' = EntrySelectedAfter(m1, list_state)
                                /\ UNCHANGED raw_mode
                           ELSE Dropped
            ELSE
                /\ pc' = IF r.edit THEN "edit" ELSE "render"
                /\ mode' = m1
                /\ tasks' = r.tasks
                /\ list_state' = r.list_state
                /\ calls' = IF r.edit THEN << <<"edit", tasks[Selected(list_state) + 1].uuid>> >>
                            ELSE <<>>
                /\ failed' = "none"
                /\ entry_tasks' = EntryTasksAfter(m1, tasks)
                /\ entry_selected' = EntrySelectedAfter(m1, list_state)
                /\ UNCHANGED <<store, tasks_contents, raw_mode>>

\* a mutant of EditReturns: the Err of task_edit ends execute()
EditReturnsOrFails ==
    /\ pc = "edit"
    /\ \E result \in {"spawn_err", "wait_err", "success", "failure"} :
        IF result = "success" THEN
            /\ pc' = "render"
            /\ UNCHANGED <<mode, tasks, list_state, tasks_contents, entry_tasks,
                           entry_selected, raw_mode>>
        ELSE
            pc' = "error" /\ Dropped
    /\ UNCHANGED <<store, opt_only_taskn, calls, last, failed>>

\* Normal::task_edit: `task <uuid> edit` was started, and now it fails to
\* start, exits with success or exits with a failure; the Result is dropped
EditReturns ==
    /\ pc = "edit"
    /\ \E result \in {"spawn_err", "wait_err", "success", "failure"} : pc' = "render"
    /\ UNCHANGED <<store, opt_only_taskn, mode, tasks, list_state, tasks_contents,
                   calls, last, entry_tasks, entry_selected, failed, raw_mode>>

Next ==
    \/ Startup /\ UNCHANGED evvars
    \/ Render /\ UNCHANGED evvars
    \/ Resize /\ UNCHANGED evvars
    \/ \E key \in Keys : Quit(key) /\ UNCHANGED evvars
    \/ \E key \in Keys : KeyStep(key) /\ UNCHANGED evvars
    \/ EditReturns /\ UNCHANGED evvars

Spec == Init /\ [][Next]_vars

----------------------------------------------------------------------------
(* Flushing what was loaded, on stores of many tasks *)

FlushUuids == <<"T01", "T02", "T03", "T04", "T05", "T06", "T07", "T08", "T09", "T10",
                "T11", "T12", "T13", "T14">>

\* how the n tasks of a store got their estimates: "none" have none,
\* "position" as the order command numbers them (0, 1, ..), "reversed" the
\* same numbers from n - 1 down, "same" all alike
EstimatePatterns == {"none", "position", "reversed", "same"}

FlushStore(n, pattern) ==
    [i \in 1..n |->
        [id |-> i, description |-> "t", uuid |-> FlushUuids[i], status |-> "pending",
         estimate |-> IF pattern = "none" THEN None
                      ELSE IF pattern = "position" THEN Some(ToString(i - 1))
                      ELSE IF pattern = "reversed" THEN Some(ToString(n - i))
                      ELSE Some(<<5>>),
         tags |-> IF i % 2 = 1 THEN Some(<<"taskn">>) ELSE None]]

InitFlush ==
    /\ store \in { FlushStore(n, pattern) :
                      n \in 0..(IF MaxFlushTasks < Len(FlushUuids) THEN MaxFlushTasks
                                 ELSE Len(FlushUuids)),
                      pattern \in EstimatePatterns }
    /\ opt_only_taskn \in BOOLEAN
    /\ pc = "start"
    /\ mode = Normal
    /\ tasks = <<>>
    /\ list_state = None
    /\ tasks_contents = <<>>
    /\ calls = <<>>
    /\ last = <<>>
    /\ entry_tasks = <<>>
    /\ entry_selected = None
    /\ failed = "none"
    /\ raw_mode = FALSE
    /\ EventsAbstract

\* the session loads, enters Shift mode and commits without moving a task
NextFlush ==
    \/ Startup /\ UNCHANGED evvars
    \/ Render /\ UNCHANGED evvars
    \/ KeyStep("s") /\ UNCHANGED evvars
    \/ KeyStep("Enter") /\ UNCHANGED evvars

SpecFlush == InitFlush /\ [][NextFlush]_vars

----------------------------------------------------------------------------
(* Events: the channel and the two threads that send on it *)

\* the keys the terminal gives the input thread in SpecEvents
EventKeys == {"j", "s", "X", "q"}

\* execute() has returned or unwound: `events`, and the Receiver in it, is
\* dropped
ReceiverDropped == pc \in {"exited", "error", "panicked"}

\* the Sender of the input thread is dropped when its closure ends
InputSenderDropped == input_thread # "running"

\* the Sender of the signal thread is dropped only by a panic: the thread
\* loops for ever
SignalSenderDropped == signal_thread = "panicked"

\* a mutant of Send: the event is put in front of the waiting ones
SendInFront(c, ev) == <<ev>> \o c

\* mpsc::Sender::send on a channel whose Receiver lives: the event is put
\* behind the events that wait
Send(c, ev) == Append(c, ev)

InitEvents ==
    /\ store = MakeStore(<<1, 2>>)
    /\ opt_only_taskn = FALSE
    /\ pc = "start"
    /\ mode = Normal
    /\ tasks = <<>>
    /\ list_state = None
    /\ tasks_contents = <<>>
    /\ calls = <<>>
    /\ last = <<>>
    /\ entry_tasks = <<>>
    /\ entry_selected = None
    /\ failed = "none"
    /\ raw_mode = FALSE
    /\ chan = <<>>
    /\ input_thread = "running"
    /\ signal_thread = "starting"
    /\ sent_keys = <<>>
    /\ resizes = 0
    /\ delivered = <<>>

\* make_input_thread: stdin.keys() gives Ok(key), and tx.send(..).unwrap()
\* sends it, or panics when the Receiver is dropped
InputKey ==
    /\ pc # "start"
    /\ input_thread = "running"
    /\ Len(sent_keys) < MaxSentKeys
    /\ \E key \in EventKeys :
        IF ReceiverDropped THEN
            /\ input_thread' = "panicked"
            /\ UNCHANGED <<chan, sent_keys>>
        ELSE
            /\ chan' = Send(chan, <<"Key", key, pc = "edit">>)
            /\ sent_keys' = Append(sent_keys, key)
            /\ UNCHANGED input_thread
    /\ UNCHANGED <<store, opt_only_taskn, pc, mode, tasks, list_state, tasks_contents,
                   calls, last, entry_tasks, entry_selected, failed, raw_mode,
                   signal_thread, resizes, delivered>>

\* make_input_thread: stdin.keys() gives Err and key.unwrap() panics, or it
\* gives no more keys and the closure returns
InputStops ==
    /\ pc # "start"
    /\ input_thread = "running"
    /\ \E how \in {"panicked", "ended"} : input_thread' = how
    /\ UNCHANGED <<store, opt_only_taskn, pc, mode, tasks, list_state, tasks_contents,
                   calls, last, entry_tasks, entry_selected, failed, raw_mode,
                   chan, signal_thread, sent_keys, resizes, delivered>>

\* make_signal_thread: Signals::new(&[SIGWINCH]).unwrap()
SignalStarts ==
    /\ pc # "start"
    /\ signal_thread = "starting"
    /\ \E registered \in BOOLEAN :
        signal_thread' = IF registered THEN "running" ELSE "panicked"
    /\ UNCHANGED <<store, opt_only_taskn, pc, mode, tasks, list_state, tasks_contents,
                   calls, last, entry_tasks, entry_selected, failed, raw_mode,
                   chan, input_thread, sent_keys, resizes, delivered>>

\* make_signal_thread: a SIGWINCH comes and tx.send(Event::Resize).unwrap()
\* sends it, or panics when the Receiver is dropped
SignalResize ==
    /\ signal_thread = "running"
    /\ resizes < MaxResizes
    /\ resizes' = resizes + 1
    /\ IF ReceiverDropped THEN
            /\ signal_thread' = "panicked"
            /\ UNCHANGED chan
       ELSE
            /\ chan' = Send(chan, <<"Resize", "", pc = "edit">>)
            /\ UNCHANGED signal_thread
    /\ UNCHANGED <<store, opt_only_taskn, pc, mode, tasks, list_state, tasks_contents,
                   calls, last, entry_tasks, entry_selected, failed, raw_mode,
                   input_thread, sent_keys, delivered>>

\* events.next() returns Ok(event): rx.recv() takes the oldest event of the
\* channel, and the loop handles it
Recv ==
    /\ pc = "next"
    /\ chan # <<>>
    /\ chan' = Tail(chan)
    /\ delivered' = Append(delivered, Head(chan))
    /\ UNCHANGED <<input_thread, signal_thread, sent_keys, resizes>>
    /\ IF Head(chan)[1] = "Resize" THEN Resize
       ELSE Quit(Head(chan)[2]) \/ KeyStep(Head(chan)[2])

\* events.next() returns Err: rx.recv() fails when the channel is empty and
\* every Sender is dropped; `?` ends execute()
RecvFails ==
    /\ pc = "next"
    /\ chan = <<>>
    /\ InputSenderDropped /\ SignalSenderDropped
    /\ pc' = "error"
    /\ calls' = <<>>
    /\ failed' = "none"
    /\ last' = <<mode[1], "RecvError", Selected(list_state)>>
    /\ Dropped
    /\ UNCHANGED <<store, opt_only_taskn, evvars>>

\* the steps of execute()
MainThread ==
    \/ Startup /\ UNCHANGED evvars
    \/ Render /\ UNCHANGED evvars
    \/ Recv
    \/ RecvFails
    \/ EditReturns /\ UNCHANGED evvars

NextEvents ==
    \/ MainThread
    \/ InputKey
    \/ InputStops
    \/ SignalStarts
    \/ SignalResize

SpecEvents == InitEvents /\ [][NextEvents]_vars

\* the main thread is scheduled and the editor of task_edit exits; nothing
\* is assumed of the terminal and of the signals
SpecEventsFair == SpecEvents /\ WF_vars(MainThread)

----------------------------------------------------------------------------
(* Vocabulary of the properties *)

\* execute() is in its loop
Running == pc \in {"render", "next", "edit"}

\* this step is the loop taking key (or "Resize") in mode m
KeyTaken(m, key) ==
    pc = "next" /\ mode[1] = m /\ last' = <<m, key, Selected(list_state)>>

\* the latest event the loop took was key in mode m
LastWas(m, key) == last # <<>> /\ last[1] = m /\ last[2] = key

\* the snapshot is the result of a load that has just returned
Loaded == pc = "render" /\ calls # <<>> /\ calls[Len(calls)][1] = "export"

\* the task of the store with this uuid
InStore(st, uuid) == st[CHOOSE i \in 1..Len(st) : st[i].uuid = uuid]

\* this step is a flush, asked for by Shift or by Done, that returns Ok
FlushCompleted ==
    /\ KeyTaken("Shift", "Enter") \/ KeyTaken("Shift", "s") \/ KeyTaken("Done", "Enter")
    /\ pc' = "render"

----------------------------------------------------------------------------
(* C1 *)

\* C1: whenever the task sequence is not empty, the selection is present
\* and is an index i with 0 <= i < len of the sequence.
C1_SelectionValid ==
    tasks # <<>> =>
        IsSome(list_state) /\ list_state[1] >= 0 /\ list_state[1] < Len(tasks)

\* a flush has just clamped the selection: the last task of two or more was
\* selected and marked done, and the last of the remaining ones is selected
C1_Witness ==
    /\ pc = "render" /\ LastWas("Done", "Enter")
    /\ tasks # <<>> /\ last[3] = Len(tasks)
    /\ list_state = Some(Len(tasks) - 1)

----------------------------------------------------------------------------
(* C2 *)

\* C2: when a reorder is committed in Shift mode (enter or 's'), the flush
\* stores each task's position as its estimate, and the load that follows,
\* as any later load of the unchanged store, yields the committed order.
C2_CommitIsDurable ==
    [][ ((KeyTaken("Shift", "Enter") \/ KeyTaken("Shift", "s")) /\ pc' = "render") =>
            /\ \A i \in 1..Len(tasks) :
                    InStore(store', tasks[i].uuid).estimate = FlushEstimate(i - 1)
            /\ Uuids(tasks') = Uuids(tasks)
            /\ Uuids(Load(store', opt_only_taskn, "ok").tasks) = Uuids(tasks) ]_vars

----------------------------------------------------------------------------
(* C3 *)

\* C3: a flush issues exactly one persist call per task of the sequence, in
\* the order of the sequence, each carrying estimate = the task's position,
\* and all of them before the list call of the reload.
C3_FlushPersistsPositions ==
    [][ FlushCompleted =>
            /\ Len(calls') = Len(tasks) + 1
            /\ \A i \in 1..Len(tasks) :
                    /\ calls'[i][1] = "modify"
                    /\ calls'[i][2] = tasks[i].uuid
                    /\ calls'[i][5] = Some(FlushEstimate(i - 1))
            /\ calls'[Len(tasks) + 1][1] = "export" ]_vars

----------------------------------------------------------------------------
(* C4 *)

\* C4: in Shift mode, after any sequence of up/down keys (also at the first
\* and the last position), the cancel arm of the mode gives back the task
\* order and the selection the snapshot had when Shift mode was entered.
C4_CancelRestores ==
    /\ (mode[1] = "Shift" /\ Running) =>
            \A key \in {"Esc", "CtrlF"}, wrap \in BOOLEAN :
                LET r == ShiftUpdate(tasks, list_state, mode[2], key, wrap)
                IN  /\ r.kind = "ok"
                    /\ r.tasks = entry_tasks
                    /\ r.list_state = entry_selected
    /\ (pc = "render" /\ LastWas("Shift", "CtrlF")) =>
            tasks = entry_tasks /\ list_state = entry_selected

\* a cancel has acted on a task that had been moved two places or more
C4_Witness ==
    /\ pc = "render" /\ LastWas("Shift", "CtrlF")
    /\ \/ last[3] - Selected(list_state) >= 2
       \/ Selected(list_state) - last[3] >= 2
    /\ tasks = entry_tasks

----------------------------------------------------------------------------
(* C5 *)

\* C5: when the loop takes esc or ctrl-f in Shift mode, the reorder is
\* undone (the task is back at the remembered position, the cursor on it),
\* the next mode is Normal, no flush or reload runs, the session goes on.
C5_ShiftCancelKeys ==
    [][ (KeyTaken("Shift", "Esc") \/ KeyTaken("Shift", "CtrlF")) =>
            /\ pc' = "render"
            /\ mode' = Normal
            /\ tasks' = entry_tasks
            /\ list_state' = entry_selected
            /\ calls' = <<>>
            /\ store' = store ]_vars

----------------------------------------------------------------------------
(* C6 *)

CursorKeys == {"Up", "k", "Down", "j", "g", "G"}

\* C6: a load that matches no task yields selection none; from there every
\* cursor key (up/k, down/j, g, G) leaves the selection none and does not
\* fail, and rendering in Normal mode completes without failure.
C6_EmptySnapshotIsSafe ==
    (Loaded /\ tasks = <<>> /\ mode = Normal) =>
        /\ list_state = None
        /\ \A key \in CursorKeys, wrap \in BOOLEAN :
                LET r == NormalUpdate(tasks, list_state, key, wrap)
                IN  r.kind = "ok" /\ r.list_state = None /\ r.new_mode = None
        /\ ~RenderPanics(mode, tasks, list_state, tasks_contents)

----------------------------------------------------------------------------
(* C7 *)

\* C7: 'd' then enter in Normal mode marks the selected task "done", goes
\* back to Normal and flushes; after the reload the task is not in the
\* sequence, the other tasks keep their order, and the selection is a valid
\* index of the new sequence.
C7_DoneRemovesTask ==
    [][ (KeyTaken("Done", "Enter") /\ pc' = "render") =>
            /\ mode' = Normal
            /\ InStore(store', tasks[Selected(list_state) + 1].uuid).status = "done"
            /\ Uuids(tasks') = Uuids(VecRemove(tasks, Selected(list_state)))
            /\ IsSome(list_state')
            /\ list_state'[1] < Len(tasks') ]_vars

----------------------------------------------------------------------------
(* C8 *)

\* C8: when the loop takes esc or ctrl-f in Done mode, the confirmation is
\* cancelled: the next mode is Normal, no task changes, no flush or reload
\* runs, the session goes on.
C8_DoneCancelKeys ==
    [][ (KeyTaken("Done", "Esc") \/ KeyTaken("Done", "CtrlF")) =>
            /\ pc' = "render"
            /\ mode' = Normal
            /\ tasks' = tasks
            /\ list_state' = list_state
            /\ calls' = <<>>
            /\ store' = store ]_vars

----------------------------------------------------------------------------
(* C9 *)

\* the snapshot holds what a load of the store gives
Fresh == tasks = Load(store, opt_only_taskn, "ok").tasks

\* C9: the flush of a freshly loaded snapshot that was not changed yields a
\* snapshot with the same order of uuids, whatever the number of tasks and
\* the estimates in the store.
C9_FlushFixedPoint ==
    [][ (FlushCompleted /\ mode[1] = "Shift" /\ Fresh) =>
            Uuids(tasks') = Uuids(tasks) ]_vars

\* a snapshot of MaxFlushTasks tasks was flushed as it was loaded
C9_Witness ==
    /\ Loaded /\ (LastWas("Shift", "Enter") \/ LastWas("Shift", "s"))
    /\ tasks = entry_tasks
    /\ Len(tasks) = MaxFlushTasks

----------------------------------------------------------------------------
(* C10 *)

\* C10 as stated: on load every task with no estimate is placed after every
\* task that has one, and the comparison never fails.
C10_NoEstimateSortsLast ==
    /\ Loaded =>
            \A i, j \in 1..Len(tasks) :
                (tasks[i].estimate = None /\ tasks[j].estimate # None) => i > j
    /\ ~SortPanics(store)

\* C10 as amended: on load every task with no estimate is placed before
\* every task that has one, and the comparison never fails.
C10_NoEstimateSortsFirst ==
    /\ Loaded =>
            \A i, j \in 1..Len(tasks) :
                (tasks[i].estimate = None /\ tasks[j].estimate # None) => i < j
    /\ ~SortPanics(store)

\* a load has put a task with no estimate and a task with one in order
C10_Witness ==
    /\ Loaded
    /\ \E i, j \in 1..Len(tasks) : tasks[i].estimate = None /\ tasks[j].estimate # None

----------------------------------------------------------------------------
(* C11 *)

\* the place of the task with this uuid in the store, from 1
StoreIndex(st, uuid) == CHOOSE i \in 1..Len(st) : st[i].uuid = uuid

\* C11: the sort of a load is stable: two tasks of the snapshot with equal
\* estimate are in the relative order in which the store returned them.
C11_SortIsStable ==
    Loaded =>
        \A i, j \in 1..Len(tasks) :
            (i < j /\ tasks[i].estimate = tasks[j].estimate) =>
                StoreIndex(store, tasks[i].uuid) < StoreIndex(store, tasks[j].uuid)

\* a load has sorted three tasks of which D and A have equal estimates and
\* the store returned D first
C11_Witness ==
    /\ Loaded /\ Len(tasks) = 3
    /\ \E i, j \in 1..Len(tasks) :
            /\ i < j /\ tasks[i].uuid = "D" /\ tasks[j].uuid = "A"
            /\ tasks[i].estimate = tasks[j].estimate

----------------------------------------------------------------------------
(* C12 *)

\* the number a string of decimal digits denotes
RECURSIVE ToNumber(_)
ToNumber(d) ==
    IF d = <<>> THEN 0 ELSE 10 * ToNumber(SubSeq(d, 1, Len(d) - 1)) + d[Len(d)]

\* the first load of the session has just returned
FirstLoaded == pc = "render" /\ last = <<>>

\* C12: a load yields the fetched tasks in ascending numeric order of their
\* estimates and, when the result is not empty, the selection index 0.
C12_LoadNumericOrder ==
    /\ Loaded =>
            \A i, j \in 1..Len(tasks) :
                (i < j /\ tasks[i].estimate # None /\ tasks[j].estimate # None) =>
                    ToNumber(tasks[i].estimate[1]) <= ToNumber(tasks[j].estimate[1])
    /\ (FirstLoaded /\ tasks # <<>>) => list_state = Some(0)

----------------------------------------------------------------------------
(* C13 *)

\* C13: after the reload of a flush that yields a sequence that is not
\* empty, the selection is the old index when that index is below the new
\* length, and the last index when it is not; the uuid plays no part.
C13_FlushKeepsIndex ==
    [][ (FlushCompleted /\ tasks' # <<>>) =>
            list_state' = Some(IF Selected(list_state) < Len(tasks')
                               THEN Selected(list_state) ELSE Len(tasks') - 1) ]_vars

\* a flush has kept an index above 0, and the task at that index is not the
\* one that was selected before the flush
C13_Witness ==
    /\ pc = "render" /\ LastWas("Shift", "Enter") /\ tasks # <<>>
    /\ last[3] > 0 /\ list_state = Some(last[3])
    /\ tasks[last[3] + 1].uuid # entry_tasks[entry_selected[1] + 1].uuid

----------------------------------------------------------------------------
(* C14 *)

\* the keys for which neither the loop nor the update of the mode has an
\* arm of its own
Unrecognized(m) ==
    IF m = "Normal" THEN {"z", "Enter", "CtrlF"}
    ELSE IF m = "Shift" THEN {"z", "g", "G", "d", "X"}
    ELSE {"z", "Up", "Down", "k", "j", "g", "G", "d", "s", "X"}

\* C14: in every mode a key the mode does not recognize changes neither the
\* task order nor the selection nor the mode, and no flush, reload or other
\* store call is made.
C14_UnrecognizedKeyIsNoOp ==
    [][ \A m \in {"Normal", "Shift", "Done"} : \A key \in Unrecognized(m) :
            KeyTaken(m, key) =>
                /\ pc' = "render"
                /\ mode' = mode
                /\ tasks' = tasks
                /\ list_state' = list_state
                /\ tasks_contents' = tasks_contents
                /\ calls' = <<>>
                /\ store' = store ]_vars

\* 'z' was pressed in Shift mode after a task had been moved
C14_Witness ==
    /\ pc = "render" /\ LastWas("Shift", "z") /\ mode[1] = "Shift"
    /\ tasks # entry_tasks

----------------------------------------------------------------------------
(* C15 *)

\* where a cursor key of Normal mode puts the cursor, by the table of the
\* mode
CursorAfter(key, selected, len) ==
    IF key \in {"Up", "k"} THEN (IF selected > 0 THEN selected - 1 ELSE 0)
    ELSE IF key \in {"Down", "j"} THEN (IF selected < len - 1 THEN selected + 1 ELSE len - 1)
    ELSE IF key = "g" THEN 0
    ELSE len - 1

\* C15: in Normal mode on a sequence that is not empty, up/k moves the
\* cursor up by one and stays at 0, down/j moves it down by one and stays at
\* len - 1, 'g' puts it at 0 and 'G' at len - 1; the mode stays Normal, the
\* order is unchanged, no flush or reload runs.
C15_NormalCursorKeys ==
    [][ \A key \in CursorKeys :
            (KeyTaken("Normal", key) /\ tasks # <<>>) =>
                /\ pc' = "render"
                /\ list_state' = Some(CursorAfter(key, Selected(list_state), Len(tasks)))
                /\ mode' = Normal
                /\ tasks' = tasks
                /\ calls' = <<>>
                /\ store' = store ]_vars

\* 'j' was pressed in Normal mode with the cursor on the last of two or
\* more tasks, and the cursor is still there
C15_Witness ==
    /\ pc = "render" /\ LastWas("Normal", "j") /\ mode = Normal
    /\ Len(tasks) >= 2 /\ last[3] = Len(tasks) - 1
    /\ list_state = Some(Len(tasks) - 1)

----------------------------------------------------------------------------
(* C16 *)

\* C16: in Normal mode 's' switches to Shift mode, whose original position
\* is the cursor at the key press, and 'd' switches to Done mode; neither
\* changes the order, the selection or a task, neither asks for a flush or
\* a reload.
C16_NormalModeKeys ==
    [][ /\ KeyTaken("Normal", "s") => mode' = <<"Shift", Selected(list_state)>>
        /\ KeyTaken("Normal", "d") => mode' = Done
        /\ (KeyTaken("Normal", "s") \/ KeyTaken("Normal", "d")) =>
                /\ pc' = "render"
                /\ tasks' = tasks
                /\ list_state' = list_state
                /\ tasks_contents' = tasks_contents
                /\ calls' = <<>>
                /\ store' = store ]_vars

\* 's' was pressed in Normal mode with the cursor below the first task
C16_Witness ==
    /\ pc = "render" /\ LastWas("Normal", "s")
    /\ last[3] > 0 /\ mode = <<"Shift", last[3]>>
    /\ list_state = Some(last[3])

----------------------------------------------------------------------------
(* C17 *)

\* new is old with the elements at the indices a and b (from 0) exchanged
Exchanged(old, new, a, b) ==
    /\ Len(new) = Len(old)
    /\ new[a + 1] = old[b + 1] /\ new[b + 1] = old[a + 1]
    /\ \A k \in 1..Len(old) : k \notin {a + 1, b + 1} => new[k] = old[k]

\* C17: in Shift mode up/k exchanges the selected task with the one before
\* it and down/j with the one after it, the cursor following the task; at
\* the first (last) position the key does nothing. After any number of such
\* keys the sequence holds the tasks it held when the mode was entered, all
\* but the moved one in the same relative order; the mode is still Shift and
\* no flush or reload has run.
C17_ShiftMovesTask ==
    [][ LET sel == Selected(list_state) IN
        /\ (KeyTaken("Shift", "Up") \/ KeyTaken("Shift", "k")) =>
                /\ IF sel > 0
                   THEN Exchanged(tasks, tasks', sel, sel - 1) /\ list_state' = Some(sel - 1)
                   ELSE tasks' = tasks /\ list_state' = list_state
                /\ pc' = "render" /\ mode' = mode /\ calls' = <<>> /\ store' = store
        /\ (KeyTaken("Shift", "Down") \/ KeyTaken("Shift", "j")) =>
                /\ IF sel < Len(tasks) - 1
                   THEN Exchanged(tasks, tasks', sel, sel + 1) /\ list_state' = Some(sel + 1)
                   ELSE tasks' = tasks /\ list_state' = list_state
                /\ pc' = "render" /\ mode' = mode /\ calls' = <<>> /\ store' = store
        /\ (mode'[1] = "Shift" /\ pc' \in {"render", "next"}) =>
                /\ tasks'[Selected(list_state') + 1] = entry_tasks'[entry_selected'[1] + 1]
                /\ VecRemove(tasks', Selected(list_state'))
                        = VecRemove(entry_tasks', entry_selected'[1]) ]_vars

\* in Shift mode the first of three tasks was moved to the last place
C17_Witness ==
    /\ pc = "render" /\ LastWas("Shift", "j")
    /\ mode = <<"Shift", 0>> /\ Len(tasks) = 3 /\ list_state = Some(2)
    /\ tasks[3] = entry_tasks[1] /\ tasks[1] = entry_tasks[2] /\ tasks[2] = entry_tasks[3]

----------------------------------------------------------------------------
(* C18 *)

\* the number of calls of this kind in a sequence of store calls
CountCalls(cs, op) == Cardinality({ i \in 1..Len(cs) : cs[i][1] = op })

\* C18: in Shift mode enter or 's' goes back to Normal mode and asks for a
\* flush and for no separate reload; the loop runs that flush in the same
\* iteration, before it renders or takes the next event.
C18_CommitFlushesAtOnce ==
    [][ \A key \in {"Enter", "s"} :
            KeyTaken("Shift", key) =>
                /\ \A wrap \in BOOLEAN :
                        LET r == ShiftUpdate(tasks, list_state, mode[2], key, wrap)
                        IN  /\ r.kind = "ok" /\ r.new_mode = Some(Normal)
                            /\ r.should_flush /\ ~r.should_load
                /\ pc' \in {"render", "error", "panicked"}
                /\ calls' # <<>> /\ calls'[1] = SaveCommand(FlushTasks(tasks)[1])
                /\ CountCalls(calls', "export") <= 1
                /\ pc' = "render" =>
                        /\ mode' = Normal
                        /\ CountCalls(calls', "modify") = Len(tasks)
                        /\ calls'[Len(calls')][1] = "export" ]_vars

\* 's' in Shift mode has flushed two or more tasks and the loop is about to
\* render in Normal mode
C18_Witness ==
    /\ pc = "render" /\ LastWas("Shift", "s") /\ mode = Normal
    /\ Len(tasks) >= 2 /\ Len(calls) = Len(tasks) + 1
    /\ calls[1][1] = "modify" /\ calls[Len(calls)][1] = "export"

----------------------------------------------------------------------------
(* C19 *)

ModeNames == {"Normal", "Shift", "Done"}

\* this step ends the session with no flush, reload or persist call
EndsQuietly == pc' \in {"exited", "error"} /\ calls' = <<>> /\ store' = store

\* C19 as stated: ctrl-c ends the session from every mode with no flush,
\* reload or persist call; 'q' ends it in Normal mode only: in Shift and in
\* Done mode 'q' does not end the session.
C19_QuitOnlyInNormal ==
    [][ /\ \A m \in ModeNames : KeyTaken(m, "CtrlC") => EndsQuietly
        /\ KeyTaken("Normal", "q") => EndsQuietly
        /\ \A m \in {"Shift", "Done"} : KeyTaken(m, "q") => pc' \notin {"exited", "error"} ]_vars

\* C19 as amended: ctrl-c and 'q' each end the session from every mode,
\* with no flush, reload or persist call.
C19_QuitInEveryMode ==
    [][ \A m \in ModeNames : \A key \in {"CtrlC", "q"} :
            KeyTaken(m, key) => EndsQuietly ]_vars

\* 'q' was pressed in Shift mode with the cursor below the first task, and
\* the session has ended
C19_Witness ==
    /\ pc = "exited" /\ LastWas("Shift", "q") /\ last[3] > 0
    /\ calls = <<>>

----------------------------------------------------------------------------
(* C20 *)

\* C20: when a store call does not succeed (the list call of a load, or a
\* persist call of a flush that the store reports as failed), the failure
\* reaches the loop and ends the session with an error; the session neither
\* renders nor takes a key on a snapshot after such a call.
C20_StoreFailureEndsSession ==
    failed # "none" => pc = "error"

----------------------------------------------------------------------------
(* C21 *)

\* this step is a flush, asked for by Shift or by Done
FlushStep ==
    KeyTaken("Shift", "Enter") \/ KeyTaken("Shift", "s") \/ KeyTaken("Done", "Enter")

\* C21: when a persist call of a flush fails at the k-th task, the flush
\* stops there: no persist call is issued for a later task and there is no
\* reload, and the store holds the new values (the position as estimate, the
\* status) of the tasks before position k and of no other task.
C21_FlushStopsAtFirstFailure ==
    [][ (FlushStep /\ failed' = "persist") =>
            LET k == Len(calls') IN
            /\ pc' = "error"
            /\ CountCalls(calls', "export") = 0
            /\ k <= Len(tasks)
            /\ \A i \in 1..Len(tasks) :
                    IF i < k
                    THEN /\ calls'[i][2] = tasks[i].uuid
                         /\ InStore(store', tasks[i].uuid).estimate = FlushEstimate(i - 1)
                         /\ InStore(store', tasks[i].uuid).status = calls'[i][4]
                    ELSE InStore(store', tasks[i].uuid) = InStore(store, tasks[i].uuid) ]_vars

----------------------------------------------------------------------------
(* C22 *)

\* C22: when the read of the input thread or of the signal thread fails and
\* the thread terminates, the main thread comes to see it: the blocking
\* next() of the loop returns an error in the end and the session
\* terminates; it does not block for ever.
C22_ProducerFailureEndsSession ==
    (input_thread = "panicked" \/ signal_thread = "panicked") ~> ReceiverDropped

----------------------------------------------------------------------------
(* C24 *)

\* the keys of the Key events of a sequence of events, in order
KeysOf(evs) ==
    LET ks == SelectSeq(evs, LAMBDA ev : ev[1] = "Key")
    IN  [i \in 1..Len(ks) |-> ks[i][2]]

\* the number of Resize events in a sequence of events
ResizesOf(evs) == Len(SelectSeq(evs, LAMBDA ev : ev[1] = "Resize"))

\* C24: next() delivers every event a producer has sent once and in the
\* order in which that producer sent it, however the two producers
\* interleave; the keys sent while the loop is blocked in the external edit
\* wait in the channel and are delivered in order after the block.
C24_EventsInOrder ==
    [][ /\ KeysOf(delivered') \o KeysOf(chan') = sent_keys'
        /\ signal_thread' # "panicked" =>
                ResizesOf(delivered') + ResizesOf(chan') = resizes'
        /\ pc = "edit" => delivered' = delivered
        /\ delivered' # delivered => delivered' = Append(delivered, Head(chan)) ]_vars

\* 'j' and then 'q' were sent while the loop was blocked in the edit that
\* 'X' started, and next() has returned them in that order after a Resize
C24_Witness ==
    /\ Len(delivered) = 4
    /\ delivered[1][2] = "X"
    /\ \E i, j, k \in 2..4 :
            /\ i < j
            /\ delivered[i] = <<"Key", "j", TRUE>>
            /\ delivered[j] = <<"Key", "q", TRUE>>
            /\ delivered[k][1] = "Resize"

----------------------------------------------------------------------------
(* C23 *)

\* C23: 'X' in Normal mode starts the external edit of the selected task and
\* the loop takes no event until it exits; whether the edit succeeds, does
\* not start or exits with a failure, the mode stays Normal, the order and
\* the selection are unchanged, no flush or reload runs and the session
\* goes on.
C23_EditLeavesSession ==
    [][ /\ KeyTaken("Normal", "X") =>
                /\ pc' = "edit"
                /\ calls' = << <<"edit", tasks[Selected(list_state) + 1].uuid>> >>
                /\ mode' = Normal /\ tasks' = tasks /\ list_state' = list_state
                /\ store' = store
        /\ pc = "edit" =>
                /\ pc' \in {"edit", "render"}
                /\ last' = last /\ calls' = calls
                /\ mode' = Normal /\ tasks' = tasks /\ list_state' = list_state
                /\ tasks_contents' = tasks_contents
                /\ store' = store ]_vars

\* the edit of the second task or a later one has returned and the loop is
\* about to render
C23_Witness ==
    /\ pc = "render" /\ LastWas("Normal", "X") /\ mode = Normal
    /\ last[3] > 0 /\ list_state = Some(last[3])
    /\ calls = << <<"edit", tasks[last[3] + 1].uuid>> >>

----------------------------------------------------------------------------
(* C25 *)

\* C25: a Resize event is a hint to render again: in every mode the loop
\* leaves the mode, the task order, the selection and every task as they
\* are and issues no store call.
C25_ResizeChangesNothing ==
    [][ \A m \in ModeNames :
            KeyTaken(m, "Resize") =>
                /\ pc' = "render"
                /\ mode' = mode
                /\ tasks' = tasks
                /\ list_state' = list_state
                /\ tasks_contents' = tasks_contents
                /\ calls' = <<>>
                /\ store' = store ]_vars

\* a Resize was taken in Shift mode after a task had been moved, and the
\* moved order and the cursor are kept
C25_Witness ==
    /\ pc = "render" /\ LastWas("Shift", "Resize") /\ mode[1] = "Shift"
    /\ tasks # entry_tasks /\ list_state = Some(last[3]) /\ last[3] # mode[2]

----------------------------------------------------------------------------
(* C26 *)

\* C26: after any sequence of loads, flushes and keys the note mapping has
\* an entry for the uuid of every task of the sequence, so the lookup of
\* the selected task's note in a snapshot that is not empty never panics
\* with "selected invariant violated" (also after the swaps and the cancel
\* of Shift mode).
C26_EveryTaskHasContents ==
    (Running /\ tasks # <<>>) =>
        /\ \A i \in 1..Len(tasks) :
                \E j \in 1..Len(tasks_contents) : tasks_contents[j][1] = tasks[i].uuid
        /\ ~SelectedContentsPanics(tasks, list_state, tasks_contents)

\* a Shift cancel has put back a task that has no note file, and the loop is
\* about to render its (empty) note
C26_Witness ==
    /\ pc = "render" /\ LastWas("Shift", "CtrlF") /\ mode = Normal
    /\ last[3] # Selected(list_state)
    /\ tasks[Selected(list_state) + 1].uuid \notin NoteFiles
    /\ \E j \in 1..Len(tasks_contents) :
            tasks_contents[j] = <<tasks[Selected(list_state) + 1].uuid, "">>

----------------------------------------------------------------------------
(* C27 *)

\* C27: the terminal is back in its original mode on every path by which
\* the session ends: a quit, a failure of the store during a load or a
\* flush, a failure of a render, a failure of the event source.
C27_TerminalRestored ==
    /\ pc \in {"exited", "error"} => ~raw_mode
    /\ pc \in {"render", "next", "edit"} => raw_mode

\* next() has returned an error to a session that was running in raw mode,
\* and the terminal is restored
C27_Witness ==
    /\ pc = "error" /\ last # <<>> /\ last[2] = "RecvError"
    /\ InputSenderDropped /\ SignalSenderDropped
    /\ ~raw_mode

----------------------------------------------------------------------------
(* C28 *)

----------------------------------------------------------------------------
(* C29 *)

\* this step is a flush whose reload returns Ok with no task: the export is
\* the last call, it does not fail, and nothing of the store matches
EmptyReload ==
    /\ FlushStep
    /\ calls' # <<>> /\ calls'[Len(calls')][1] = "export"
    /\ pc' # "error"
    /\ Load(store', opt_only_taskn, "ok").tasks = <<>>

\* C29: when the reload of a flush returns an empty sequence (the only
\* pending task was marked done), the flush completes without failure and
\* the new snapshot has the selection none, not an index.
C29_EmptyReloadSelectsNone ==
    [][ EmptyReload =>
            /\ pc' = "render"
            /\ tasks' = <<>>
            /\ list_state' = None ]_vars

----------------------------------------------------------------------------
(* C30 *)

\* the persist calls of this step, in the order they were issued
SaveCalls == SelectSeq(calls', LAMBDA c : c[1] = "modify")

\* C30: confirming in Done mode changes the status of exactly one task, the
\* one that was selected when 'd' was pressed. 'd' leaves the cursor and
\* the tasks as they are, no event taken in Done mode moves the cursor or
\* changes a task while the mode stays Done, and on enter the tasks go to
\* the store in their order, the selected one with status "done" and every
\* other one with the status and description it had; in the store no task
\* but the selected one changes, and that one in its status only.
C30_DoneMarksSelectedOnly ==
    [][ /\ KeyTaken("Normal", "d") =>
            /\ mode' = Done /\ list_state' = list_state /\ tasks' = tasks
            /\ calls' = <<>> /\ store' = store
        /\ \A key \in Keys \cup {"Resize"} :
            (KeyTaken("Done", key) /\ mode' = Done) =>
                /\ list_state' = list_state /\ tasks' = tasks
                /\ calls' = <<>> /\ store' = store
        /\ (KeyTaken("Done", "Enter") /\ pc' # "panicked") =>
            LET sel == Selected(list_state) + 1
            IN  /\ sel \in 1..Len(tasks)
                /\ Len(SaveCalls) <= Len(tasks)
                /\ \A i \in 1..Len(SaveCalls) :
                        /\ SaveCalls[i][2] = tasks[i].uuid
                        /\ SaveCalls[i][3] = tasks[i].description
                        /\ SaveCalls[i][4] = IF i = sel THEN "done" ELSE tasks[i].status
                /\ Len(store') = Len(store)
                /\ \A k \in 1..Len(store) :
                        \/ store'[k] = store[k]
                        \/ /\ store[k].uuid = tasks[sel].uuid
                           /\ store'[k] = [store[k] EXCEPT !.status = "done"] ]_vars

\* enter was taken in Done mode with the cursor on the second of three
\* tasks: all three were saved, the second as done, and it is the only task
\* of the store that is done and is gone from the reloaded snapshot
C30_Witness ==
    /\ pc = "render" /\ LastWas("Done", "Enter") /\ last[3] = 1 /\ mode = Normal
    /\ CountCalls(calls, "modify") = 3
    /\ calls[1][4] = "pending" /\ calls[2][4] = "done" /\ calls[3][4] = "pending"
    /\ InStore(store, calls[2][2]).status = "done"
    /\ Cardinality({ k \in 1..Len(store) : store[k].status = "done" }) = 1
    /\ Len(tasks) = 2 /\ calls[2][2] \notin { tasks[i].uuid : i \in 1..Len(tasks) }

----------------------------------------------------------------------------
(* The order command *)

\* str::parse::<usize> of an argument, a string of decimal digits; the
\* empty string does not parse
ParseUsize(a) == IF a = <<>> THEN None ELSE Some(ToNumber(a))

\* estimate_order: partial_cmp of the estimates, Greater when it is None
EstimateOrder(task1, task2) ==
    LET order == PartialCmp(task1.estimate, task2.estimate)
    IN  IF order # None THEN order[1] ELSE "Greater"

\* the place sort_by(estimate_order) gives x in the sorted v: before the
\* first element that is Greater than x
RECURSIVE OrderInsertionPoint(_, _, _)
OrderInsertionPoint(v, x, i) ==
    IF i >= Len(v) THEN Len(v)
    ELSE IF EstimateOrder(v[i + 1], x) = "Greater" THEN i
    ELSE OrderInsertionPoint(v, x, i + 1)

\* tasks.sort_by(estimate_order): a stable sort, ascending
RECURSIVE SortByEstimateOrder(_)
SortByEstimateOrder(v) ==
    IF v = <<>> THEN <<>>
    ELSE LET front == SortByEstimateOrder(SubSeq(v, 1, Len(v) - 1))
         IN  VecInsert(front, OrderInsertionPoint(front, v[Len(v)], 0), v[Len(v)])

\* the arguments tasks_ordered gives Task::get
OrderFilter == <<"status:pending">>

\* tasks_ordered when Task::get returns Ok
TasksOrdered(st) == SortByEstimateOrder(TaskGet(st, OrderFilter))

\* the index of the first task with this id, None when there is none
TargetIndex(ts, target_id) ==
    LET found == { i \in 0..(Len(ts) - 1) : ts[i + 1].id = target_id }
    IN  IF found = {} THEN None
        ELSE Some(CHOOSE i \in found : \A k \in found : i <= k)

\* the block `if !opt.args.is_empty()` of execute: the asserts and the
\* unwraps panic, otherwise the task is removed and inserted
OrderMove(ts, args) ==
    IF Len(args) # 2 THEN [kind |-> "panic", tasks |-> ts]
    ELSE IF ParseUsize(args[1]) = None \/ ParseUsize(args[2]) = None THEN
        [kind |-> "panic", tasks |-> ts]
    ELSE LET target_id == ParseUsize(args[1])[1]
             target_order == ParseUsize(args[2])[1]
             target_index == TargetIndex(ts, target_id)
         IN  IF ~(target_order < Len(ts)) THEN [kind |-> "panic", tasks |-> ts]
             ELSE IF target_index = None THEN [kind |-> "panic", tasks |-> ts]
             ELSE [kind |-> "ok",
                   tasks |-> VecInsert(VecRemove(ts, target_index[1]), target_order,
                                       ts[target_index[1] + 1])]

\* the command of Task::set_estimate(Some(i)): `task <uuid> modify estimate:<i>`
SetEstimateCommand(t, i) == <<"modify", t.uuid, Some(ToString(i))>>

\* taskwarrior's execution of that command: the named task takes the
\* estimate
StoreSetEstimate(st, cmd) ==
    [k \in 1..Len(st) |->
        IF st[k].uuid = cmd[2] THEN [st[k] EXCEPT !.estimate = cmd[3]] ELSE st[k]]

\* the store after the first n calls of the loop of execute; the command of
\* the call numbered reject_at exits with a failure and changes nothing
RECURSIVE SetEstimates(_, _, _, _)
SetEstimates(st, ts, n, reject_at) ==
    IF n = 0 THEN st
    ELSE IF n = reject_at THEN SetEstimates(st, ts, n - 1, reject_at)
    ELSE StoreSetEstimate(SetEstimates(st, ts, n - 1, reject_at),
                          SetEstimateCommand(ts[n], n - 1))

\* what the calls of one run do: "ok"; "get_err": Task::get fails;
\* "set_err": the command of the 2nd set_estimate does not start, and
\* set_estimate returns Err; "rejected": the command of the 1st
\* set_estimate exits with a failure, and set_estimate returns Ok(()) as it
\* drops the Output
OrderOutcomes == {"ok", "get_err", "set_err", "rejected"}

\* commands::order::execute
OrderExecute(st, args, outcome) ==
    LET export == <<"export", OrderFilter>>
        sorted == TasksOrdered(st)
        moved == IF args = <<>> THEN [kind |-> "ok", tasks |-> sorted]
                 ELSE OrderMove(sorted, args)
        ts == moved.tasks
        fail_at == IF outcome = "set_err" /\ Len(ts) >= 2 THEN 2 ELSE 0
        reject_at == IF outcome = "rejected" /\ Len(ts) >= 1 THEN 1 ELSE 0
        n == IF fail_at = 0 THEN Len(ts) ELSE fail_at - 1
        attempts == IF fail_at = 0 THEN Len(ts) ELSE fail_at
    IN  IF outcome = "get_err" THEN
            [kind |-> "err", store |-> st, tasks |-> <<>>, calls |-> <<export>>,
             failed |-> "list"]
        ELSE IF moved.kind = "panic" THEN
            [kind |-> "panic", store |-> st, tasks |-> ts, calls |-> <<export>>,
             failed |-> "none"]
        ELSE
            [kind |-> IF fail_at = 0 THEN "ok" ELSE "err",
             store |-> SetEstimates(st, ts, n, reject_at),
             tasks |-> ts,
             calls |-> <<export>> \o [i \in 1..attempts |-> SetEstimateCommand(ts[i], i - 1)],
             failed |-> IF fail_at # 0 \/ reject_at # 0 THEN "persist" ELSE "none"]

\* the number of runs of the order command so far
RunsSoFar == IF last = <<>> THEN 0 ELSE last[4]

\* the stores SpecOrder starts from
OrderStores ==
    { FlushStore(n, pattern) :
        n \in 0..(IF MaxOrderTasks < Len(FlushUuids) THEN MaxOrderTasks ELSE Len(FlushUuids)),
        pattern \in EstimatePatterns }

\* the arguments the order command is given on a store of n tasks: none; an
\* id and a position, among them an id that no task has and the position
\* n; a single argument; an argument that is no number
OrderArgs(n) ==
    {<<>>} \cup { <<ToString(id), ToString(p)>> : id \in {1, 3, n + 1}, p \in {0, 2, n} }
           \cup { <<ToString(1)>>, << <<>>, ToString(0) >> }

InitOrder ==
    /\ store \in OrderStores
    /\ opt_only_taskn = FALSE
    /\ pc = "shell"
    /\ mode = Normal
    /\ tasks = <<>>
    /\ list_state = None
    /\ tasks_contents = <<>>
    /\ calls = <<>>
    /\ last = <<>>
    /\ entry_tasks = <<>>
    /\ entry_selected = None
    /\ failed = "none"
    /\ raw_mode = FALSE
    /\ EventsAbstract

\* one run of `taskn order args` from the shell, to its end; last records
\* the arguments, how the run ended and the number of the run, tasks the
\* Vec of execute after the move
OrderRun(args) ==
    /\ pc = "shell"
    /\ RunsSoFar < MaxOrderRuns
    /\ \E outcome \in OrderOutcomes :
       \E r \in {OrderExecute(store, args, outcome)} :
        /\ store' = r.store
        /\ tasks' = r.tasks
        /\ calls' = r.calls
        /\ failed' = r.failed
        /\ last' = <<"order", args, r.kind, RunsSoFar + 1>>
    /\ UNCHANGED <<pc, opt_only_taskn, mode, list_state, tasks_contents, entry_tasks,
                   entry_selected, raw_mode>>

NextOrder ==
    \E args \in OrderArgs(Len(store)) : OrderRun(args) /\ UNCHANGED evvars

SpecOrder == InitOrder /\ [][NextOrder]_vars

----------------------------------------------------------------------------
(* C31 *)

\* this step is a run of the order command with these arguments that
\* returns Ok, every command of it having succeeded
OrderRanOk(args) ==
    /\ pc = "shell"
    /\ last' = <<"order", args, "ok", RunsSoFar + 1>>
    /\ failed' = "none"

\* the order of two estimates as the numbers they denote, an absent one
\* before every number
EstimateOrderNumeric(task1, task2) ==
    IF task1.estimate = None /\ task2.estimate = None THEN "Equal"
    ELSE IF task1.estimate = None THEN "Less"
    ELSE IF task2.estimate = None THEN "Greater"
    ELSE IF ToNumber(task1.estimate[1]) < ToNumber(task2.estimate[1]) THEN "Less"
    ELSE IF ToNumber(task1.estimate[1]) > ToNumber(task2.estimate[1]) THEN "Greater"
    ELSE "Equal"

\* the number of tasks of v that come before v[k] in the ascending numeric
\* order of the estimates, equal ones in the order of v
NumericRank(v, k) ==
    Cardinality({ j \in 1..Len(v) :
                    \/ EstimateOrderNumeric(v[j], v[k]) = "Less"
                    \/ EstimateOrderNumeric(v[j], v[k]) = "Equal" /\ j < k })

\* v in the ascending numeric order of the estimates
NumericSorted(v) ==
    [i \in 1..Len(v) |-> v[CHOOSE k \in 1..Len(v) : NumericRank(v, k) = i - 1]]

\* the pending tasks of the store in the order of their estimates
PendingByEstimate == NumericSorted(TaskGet(store, OrderFilter))

\* C31: the order command with a task id and a position p (the id present,
\* p below the number of pending tasks) puts that task at index p of the
\* pending tasks sorted by estimate, keeps the relative order of the other
\* tasks, and then gives the task at each index i the estimate i, for
\* i = 0..n-1 in this order.
C31_OrderPlacesTask ==
    [][ \A args \in OrderArgs(Len(store)) :
            ( /\ Len(args) = 2 /\ args[1] # <<>> /\ args[2] # <<>>
              /\ ToNumber(args[2]) < Len(PendingByEstimate)
              /\ TargetIndex(PendingByEstimate, ToNumber(args[1])) # None
              /\ OrderRanOk(args) ) =>
                LET before == PendingByEstimate
                    index == TargetIndex(before, ToNumber(args[1]))[1]
                    expected == VecInsert(VecRemove(before, index), ToNumber(args[2]),
                                          before[index + 1])
                IN  /\ Len(calls') = Len(expected) + 1
                    /\ \A i \in 1..Len(expected) :
                            /\ calls'[i + 1] = <<"modify", expected[i].uuid,
                                                 Some(ToString(i - 1))>>
                            /\ InStore(store', expected[i].uuid).estimate
                                    = Some(ToString(i - 1)) ]_vars

----------------------------------------------------------------------------
(* C32 *)

\* the latest run of the order command had no arguments and returned Ok,
\* every command of it having succeeded
RanWithoutArgs ==
    /\ last # <<>> /\ last[1] = "order" /\ last[2] = <<>> /\ last[3] = "ok"
    /\ failed = "none"

\* C32: the order command without arguments is idempotent: for any number
\* of pending tasks (more than 10 too), a second run with no change in
\* between gives every task the estimate the first run gave it.
C32_OrderIsIdempotent ==
    [][ (RanWithoutArgs /\ OrderRanOk(<<>>)) =>
            /\ Len(store') = Len(store)
            /\ \A k \in 1..Len(store) : store'[k].estimate = store[k].estimate ]_vars

====
